---- MODULE Spec2Model ----
(***************************************************************************)
(* Seat reservation and ticket redemption core of student-union-backend.  *)
(*                                                                         *)
(* EventRegisterView.post (apps/events/views_student.py) and               *)
(* CheckInView.post (apps/events/views_checkin.py) run as request handlers *)
(* on a pool of server workers.  Each handler body is one database         *)
(* transaction (@transaction.atomic).  The store is modelled with          *)
(* row-level locking and READ COMMITTED visibility: a statement sees the   *)
(* committed rows plus the writes of its own transaction; an UPDATE, a     *)
(* SELECT ... FOR UPDATE, or an INSERT that collides with another          *)
(* transaction's uncommitted row on a unique key waits for that            *)
(* transaction to end.  A handler that returns a Response commits; a       *)
(* handler that raises rolls back.                                         *)
(***************************************************************************)
EXTENDS Integers, FiniteSets, Sequences, TLC

\* ---------------------------------------------------------------- bounds
NumWorkers == 2          \* concurrent request handlers
MaxRequests == 3         \* requests served in one behaviour

\* ------------------------------------------------------- value conventions
NULL == -1               \* Python None / SQL NULL
UNBOUND == -2            \* a Python local that was never assigned

Workers == 1..NumWorkers

\* Python truthiness of an integer-or-None request field ("if not x")
Falsy(x) == x = NULL \/ x = 0

\* ------------------------------------------------------------ fixed data
EventSlugs == {"e1", "e2", "e3"}
TelegramIds == {1, 2}
SeatIds == {1, 2, 3, 4}

\* TelegramAccount rows: telegram_user_id 7 is linked to staff user 9
TelegramAccount == {[telegram_user_id |-> 7, user |-> 9]}

\* Event.capacity of the event on sale: a hall for one
EventCapacity == 1

\* SeatStatus
FREE == "free"
RESERVED == "reserved"
SOLD == "sold"
BLOCKED == "blocked"
\* seats is a function over SeatIds: a row that was deleted is marked DELETED,
\* and no query finds it
DELETED == "deleted"

VARIABLES
    events,          \* Event rows: slug -> [is_active, is_paid, base_price,
                     \*                      capacity, confirmed_count]
    users,           \* committed UserProfile rows (by telegram_id)
    seats,           \* committed Seat rows: id -> [event, status, reserved_by]
    registrations,   \* committed Registration rows
    tickets,         \* committed Ticket rows
    checkinlogs,     \* committed CheckInLog rows
    seatLock,        \* SELECT ... FOR UPDATE row locks on seats: id -> worker or 0
    tx,              \* per worker: the uncommitted writes of its transaction
    w,               \* per worker: handler position, request, locals, response
    now,             \* timezone.now(), a logical clock
    nextRegId, nextTicketId, nextLogId, nextToken,   \* id sequences, token source
    nreq             \* requests begun so far

vars == <<events, users, seats, registrations, tickets, checkinlogs, seatLock,
          tx, w, now, nextRegId, nextTicketId, nextLogId, nextToken, nreq>>

dbvars == <<users, seats, registrations, tickets, checkinlogs>>
seqvars == <<nextRegId, nextTicketId, nextLogId, nextToken>>

\* ------------------------------------------------------------ records
EmptyTx == [users |-> {}, regs |-> {}, tickets |-> {}, seats |-> {}, logs |-> {}]

NoReq == [slug |-> "", tid |-> NULL, name |-> "", seat_id |-> NULL, promo |-> "",
          token |-> NULL, checker |-> NULL]

NoResp == [code |-> 0, detail |-> "", reg |-> NULL, ticket |-> NULL, used_at |-> NULL]

\* the handler's local "event" before line 30 has assigned it
NoEvent == [is_active |-> FALSE, is_paid |-> FALSE, base_price |-> NULL,
            capacity |-> NULL, confirmed_count |-> 0]

IdleWorker == [pc |-> "idle", kind |-> "none", req |-> NoReq, event |-> NoEvent,
               reg |-> NULL,
               created |-> FALSE, seat |-> NULL, ticket |-> NULL,
               checked_by |-> UNBOUND, used_at |-> NULL, opened |-> FALSE,
               resp |-> NoResp]

\* ------------------------------------------------- transaction visibility
Ids(S) == {x.id : x \in S}

\* rows a statement of worker p sees: committed rows overlaid with p's own writes
VisRegs(p) == registrations \cup tx[p].regs
VisTickets(p) == {t \in tickets : t.id \notin Ids(tx[p].tickets)} \cup tx[p].tickets
VisSeat(p, s) ==
    IF s \in Ids(tx[p].seats)
    THEN LET x == CHOOSE x \in tx[p].seats : x.id = s
         IN [seats[s] EXCEPT !.status = x.status, !.reserved_by = x.reserved_by]
    ELSE seats[s]

\* another transaction holds the row lock of ticket row id (uncommitted write)
TicketRowLocked(p, id) == \E q \in Workers \ {p} : id \in Ids(tx[q].tickets)

\* transaction end: COMMIT publishes the writes, ROLLBACK drops them; both
\* release every lock.  The last statement of a handler and the commit that
\* follows it are one step (writes = the transaction's writes including those
\* of the last statement): nothing of the transaction is visible in between.
Commit(p, writes) ==
    /\ users' = users \cup writes.users
    /\ registrations' = registrations \cup writes.regs
    /\ tickets' = {t \in tickets : t.id \notin Ids(writes.tickets)} \cup writes.tickets
    /\ seats' = [s \in SeatIds |->
                   IF s \in Ids(writes.seats)
                   THEN LET x == CHOOSE x \in writes.seats : x.id = s
                        IN [seats[s] EXCEPT !.status = x.status,
                                            !.reserved_by = x.reserved_by]
                   ELSE seats[s]]
    /\ checkinlogs' = checkinlogs \cup writes.logs
    /\ seatLock' = [s \in SeatIds |-> IF seatLock[s] = p THEN 0 ELSE seatLock[s]]
    /\ tx' = [tx EXCEPT ![p] = EmptyTx]

\* mutation: the handler is not atomic: each statement was committed as it ran
Rollback_KeepsWrites(p) == Commit(p, tx[p])

\* mutation: a rolled-back transaction leaves its row locks behind
Rollback_KeepsLocks(p) ==
    /\ UNCHANGED <<dbvars, seatLock>>
    /\ tx' = [tx EXCEPT ![p] = EmptyTx]

Rollback(p) ==
    /\ UNCHANGED dbvars
    /\ seatLock' = [s \in SeatIds |-> IF seatLock[s] = p THEN 0 ELSE seatLock[s]]
    /\ tx' = [tx EXCEPT ![p] = EmptyTx]


\* ------------------------------------------------------- worker bookkeeping
\* a worker takes its next request when it is free; workers are interchangeable,
\* so worker p+1 is first used only after worker p
CanBegin(p) ==
    /\ w[p].pc \in {"idle", "done"}
    /\ nreq < MaxRequests
    /\ w[p].pc = "idle" => (IF p = 1 THEN TRUE ELSE w[p - 1].pc # "idle")

Started(p, kind, req) ==
    [IdleWorker EXCEPT !.kind = kind, !.req = req, !.opened = TRUE]

\* a finished handler keeps only its request and its response
Finished(me, resp) ==
    [IdleWorker EXCEPT !.pc = "done", !.kind = me.kind, !.req = me.req,
                       !.opened = me.opened, !.resp = resp]

\* mutation: an error Response rolls the atomic block back
Return_RollbackOnError(p, me, writes, resp) ==
    /\ IF resp.code >= 400 THEN Rollback(p) ELSE Commit(p, writes)
    /\ w' = [w EXCEPT ![p] = Finished(me, resp)]

\* the handler returned a Response: the atomic block commits
Return(p, me, writes, resp) ==
    /\ Commit(p, writes)
    /\ w' = [w EXCEPT ![p] = Finished(me, resp)]

\* the handler raised: the atomic block rolls back, the client gets a 500
Raise(p, me, detail) ==
    /\ Rollback(p)
    /\ w' = [w EXCEPT ![p] = Finished(me, [NoResp EXCEPT !.code = 500,
                                                          !.detail = detail])]

\* ---------------------------------------------- EventRegisterView.post
\* mutation: the lookup is by slug only
EventFound_IgnoresActive(slug) == slug \in EventSlugs

\* mutation: an event whose registrations have reached its capacity is closed
EventFound_UpToCapacity(slug) ==
    /\ slug \in EventSlugs /\ events[slug].is_active
    /\ \/ events[slug].capacity = NULL
       \/ Cardinality({r \in registrations : r.event = slug})
             < events[slug].capacity

\* line 30: Event.objects.get(slug=slug, is_active=True)
EventFound(slug) == slug \in EventSlugs /\ events[slug].is_active

\* line 38: if not telegram_id or not full_name
RegisterInvalid(tid, name) == Falsy(tid) \/ name = ""

\* mutation: final_price takes base_price as it is, without "or 0"
NewRegistration_RawPrice(id, slug, event, tid, promo) ==
    [id |-> id, event |-> slug, user |-> tid,
     promo_code |-> promo,
     final_price |-> event.base_price,
     payment_status |-> IF ~event.is_paid THEN "none" ELSE "pending",
     status |-> IF event.is_paid THEN "pending" ELSE "confirmed"]

\* lines 53-58: defaults of a newly created Registration, computed from the
\* handler's Event object
NewRegistration(id, slug, event, tid, promo) ==
    [id |-> id, event |-> slug, user |-> tid,
     promo_code |-> promo,
     final_price |-> IF Falsy(event.base_price) THEN 0 ELSE event.base_price,
     payment_status |-> IF ~event.is_paid THEN "none" ELSE "pending",
     status |-> IF event.is_paid THEN "pending" ELSE "confirmed"]

\* mutation: update_or_create: the defaults overwrite the row that was found
RegistrationDefaults_Overwrite(found, new) ==
    {[new EXCEPT !.id = IF found = {} THEN new.id
                        ELSE (CHOOSE r \in found : TRUE).id]}

\* lines 50-59: Registration.objects.get_or_create(event, user, defaults=...):
\* the rows it writes: the defaults go into a created row only
RegistrationDefaults(found, new) == IF found = {} THEN {new} ELSE {}

\* mutation: the lookup is by id only
SeatFound_AnyEvent(s, slug) == s \in SeatIds

\* line 67: Seat.objects...get(id=seat_id, event=event)
SeatFound(s, slug) ==
    s \in SeatIds /\ seats[s].event = slug /\ seats[s].status # DELETED

\* mutation: the status check is dropped
SeatAvailable_Always(status) == TRUE

\* line 71: if seat.status != SeatStatus.FREE -> "Seat is not available"
SeatAvailable(status) == status = FREE

\* mutation: the two branches of the conditional swapped
AcquiredStatus_Swapped(is_paid) == IF is_paid THEN SOLD ELSE RESERVED

\* line 74: SOLD for a free event, RESERVED for a paid one
AcquiredStatus(is_paid) == IF ~is_paid THEN SOLD ELSE RESERVED

\* mutation: a plain SELECT, no row lock
SeatLockFree_NoLock(p, s) == TRUE

\* line 67: select_for_update() waits while another transaction locks the row
SeatLockFree(p, s) == seatLock[s] = 0 \/ seatLock[s] = p

\* mutation: an existing ticket is returned as it is
NeedsRepoint_Never(ticket_seat, seat) == FALSE

\* line 83: if ticket.seat_id != seat.id
NeedsRepoint(ticket_seat, seat) == ticket_seat # seat

\* mutation: the is_paid test is dropped
IssuesFreeTicket_IgnoresPaid(is_paid, seat_id, created) == seat_id = NULL /\ created

\* line 88: if not event.is_paid and seat_id is None and created
IssuesFreeTicket(is_paid, seat_id, created) == ~is_paid /\ seat_id = NULL /\ created

\* line 206: generate_ticket_token(): uuid4 + 128 random bits, a value that
\* no ticket carries yet (a repeated draw is the matter of SpecTokens)
generate_ticket_token == nextToken

\* lines 212-222: a new Ticket row; the token is the field default, drawn
\* when the row is built
NewTicket(id, reg, seat, token) ==
    [id |-> id, registration |-> reg, seat |-> seat, token |-> token,
     is_used |-> FALSE, used_at |-> NULL]

\* mutation: the token column has no unique constraint
TokenTaken_Never(p, token) == FALSE

\* models.py line 220: token is unique=True: an INSERT whose token equals
\* that of an existing ticket fails with IntegrityError
TokenTaken(p, token) == \E t \in VisTickets(p) : t.token = token

\* mutation: create() instead of get_or_create()
FindRegistration_None(p, slug, tid) == {}

\* line 50: the lookup half of Registration.objects.get_or_create(event, user)
FindRegistration(p, slug, tid) ==
    {r \in VisRegs(p) : r.event = slug /\ r.user = tid}

\* mutation: no unique constraint on (event, user)
RegistrationInsertWaits_Never(p, slug, tid) == FALSE

\* models.py line 198: unique_together (event, user): the INSERT waits while
\* another transaction holds an uncommitted row with the same pair
RegistrationInsertWaits(p, slug, tid) ==
    \E q \in Workers \ {p} : \E r \in tx[q].regs : r.event = slug /\ r.user = tid

\* mutation: create() instead of get_or_create()
FindTicket_None(p, reg) == {}

\* line 79: the lookup half of Ticket.objects.get_or_create(registration)
FindTicket(p, reg) == {t \in VisTickets(p) : t.registration = reg}

\* models.py line 213: OneToOneField(registration): the INSERT waits while
\* another transaction holds an uncommitted ticket of the same registration
TicketInsertWaits(p, reg) ==
    \E q \in Workers \ {p} : \E t \in tx[q].tickets : t.registration = reg

\* mutation: the repoint replaces the ticket's token by a new one
SaveSeat_NewToken(row, seat) == [row EXCEPT !.seat = seat, !.token = nextToken]

\* mutation: a full save() of a freshly built instance resets the other fields
SaveSeat_AllFields(row, seat) ==
    [row EXCEPT !.seat = seat, !.is_used = FALSE, !.used_at = NULL]

\* lines 84-85: ticket.seat = seat; ticket.save(update_fields=["seat"])
SaveSeat(row, seat) == [row EXCEPT !.seat = seat]

\* lines 27-48: enter the atomic block, resolve the event, validate, and
\* get-or-create the UserProfile by telegram_id
RegisterBegin(p, slug, tid, name, seat_id, promo) ==
    /\ CanBegin(p)
    /\ nreq' = nreq + 1
    /\ LET req == [NoReq EXCEPT !.slug = slug, !.tid = tid, !.name = name,
                                !.seat_id = seat_id, !.promo = promo]
           me == Started(p, "register", req)
       IN IF ~EventFound(slug)
          THEN Return(p, me, tx[p],
                      [NoResp EXCEPT !.code = 404, !.detail = "Event not found"])
          ELSE IF RegisterInvalid(tid, name)
          THEN Return(p, me, tx[p],
                      [NoResp EXCEPT !.code = 400,
                                     !.detail = "telegram_id and full_name are required"])
          ELSE \* the INSERT waits while another transaction holds the same
               \* telegram_id uncommitted
               /\ tid \notin users => \A q \in Workers \ {p} : tid \notin tx[q].users
               /\ tx' = [tx EXCEPT ![p].users =
                            IF tid \in users THEN @ ELSE @ \cup {tid}]
               \* line 30: the Event row is read once; the handler works on
               \* this object from here on
               /\ w' = [w EXCEPT ![p] = [me EXCEPT !.pc = "r_reg",
                                                  !.event = events[slug]]]
               /\ UNCHANGED <<dbvars, seatLock>>
    /\ UNCHANGED <<events, now, seqvars>>

\* lines 91-95: the success Response: 201 if the registration was created
RegisterResponse(created, reg, ticket) ==
    [NoResp EXCEPT !.code = IF created THEN 201 ELSE 200, !.reg = reg,
                   !.ticket = ticket]

\* lines 50-61: get-or-create the Registration of (event, user); without a
\* seat and without a free ticket to issue, lines 91-95 return at once
RegisterRegistration(p) ==
    /\ w[p].pc = "r_reg"
    /\ LET me == w[p]
           slug == me.req.slug
           tid == me.req.tid
           found == FindRegistration(p, slug, tid)
           created == found = {}
           reg == IF created THEN nextRegId ELSE (CHOOSE r \in found : TRUE).id
           writes == [tx[p] EXCEPT !.regs = @ \cup
                        RegistrationDefaults(found,
                            NewRegistration(nextRegId, slug, me.event, tid,
                                            me.req.promo))]
           next == [me EXCEPT !.reg = reg, !.created = created]
       IN \* unique (event, user): wait for a concurrent uncommitted insert
          /\ created => ~RegistrationInsertWaits(p, slug, tid)
          /\ nextRegId' = IF created THEN nextRegId + 1 ELSE nextRegId
          /\ IF ~Falsy(me.req.seat_id)
             THEN /\ tx' = [tx EXCEPT ![p] = writes]
                  /\ w' = [w EXCEPT ![p] = [next EXCEPT !.pc = "r_seat"]]
                  /\ UNCHANGED <<dbvars, seatLock>>
             ELSE IF IssuesFreeTicket(me.event.is_paid, me.req.seat_id, created)
             THEN /\ tx' = [tx EXCEPT ![p] = writes]
                  /\ w' = [w EXCEPT ![p] = [next EXCEPT !.pc = "r_free"]]
                  /\ UNCHANGED <<dbvars, seatLock>>
             ELSE Return(p, next, writes, RegisterResponse(created, reg, NULL))
    /\ UNCHANGED <<events, now, nextTicketId, nextLogId, nextToken, nreq>>

\* lines 65-76: lock the seat row, check it is FREE, mark it SOLD/RESERVED;
\* lines 69 and 72 return the error Response
RegisterSeat(p) ==
    /\ w[p].pc = "r_seat"
    /\ LET me == w[p]
           s == me.req.seat_id
           slug == me.req.slug
       IN IF ~SeatFound(s, slug)
          THEN Return(p, me, tx[p],
                      [NoResp EXCEPT !.code = 404, !.detail = "Seat not found"])
          ELSE /\ SeatLockFree(p, s)
               /\ IF ~SeatAvailable(VisSeat(p, s).status)
                  THEN Return(p, me, tx[p],
                              [NoResp EXCEPT !.code = 400,
                                             !.detail = "Seat is not available"])
                  ELSE /\ seatLock' = [seatLock EXCEPT ![s] = p]
                       /\ tx' = [tx EXCEPT ![p].seats =
                                   {x \in @ : x.id # s} \cup
                                   {[id |-> s,
                                     status |-> AcquiredStatus(me.event.is_paid),
                                     reserved_by |-> me.req.tid]}]
                       /\ w' = [w EXCEPT ![p] = [me EXCEPT !.pc = "r_ticket",
                                                          !.seat = s]]
                       /\ UNCHANGED dbvars
    /\ UNCHANGED <<events, now, seqvars, nreq>>

\* lines 79-83: Ticket.objects.get_or_create(registration, defaults={"seat": seat});
\* a ticket that already has this seat needs no update and lines 91-95 return
RegisterTicket(p, token) ==
    /\ w[p].pc = "r_ticket"
    /\ LET me == w[p]
           found == FindTicket(p, me.reg)
       IN IF found # {}
          THEN LET t == CHOOSE t \in found : TRUE
               IN /\ IF NeedsRepoint(t.seat, me.seat)
                     THEN /\ w' = [w EXCEPT ![p] = [me EXCEPT !.ticket = t.id,
                                                             !.pc = "r_repoint"]]
                          /\ UNCHANGED <<dbvars, seatLock, tx>>
                     ELSE Return(p, me, tx[p],
                                 RegisterResponse(me.created, me.reg, t.id))
                  /\ UNCHANGED <<nextTicketId, nextToken>>
          ELSE \* unique registration_id: wait for a concurrent uncommitted insert
               /\ ~TicketInsertWaits(p, me.reg)
               /\ nextTicketId' = nextTicketId + 1
               /\ nextToken' = nextToken + 1
               /\ IF TokenTaken(p, token)
                  THEN \* get_or_create finds no ticket of the registration
                       \* to fall back on and re-raises the IntegrityError
                       Raise(p, me, "IntegrityError")
                  ELSE Return(p, me,
                              [tx[p] EXCEPT !.tickets = @ \cup
                                  {NewTicket(nextTicketId, me.reg, me.seat, token)}],
                              RegisterResponse(me.created, me.reg, nextTicketId))
    /\ UNCHANGED <<events, now, nextRegId, nextLogId, nreq>>

\* lines 84-85: ticket.seat = seat; ticket.save(update_fields=["seat"]), then
\* lines 91-95
RegisterRepoint(p) ==
    /\ w[p].pc = "r_repoint"
    /\ LET me == w[p]
           cur == CHOOSE t \in VisTickets(p) : t.id = me.ticket
       IN /\ ~TicketRowLocked(p, me.ticket)
          /\ Return(p, me,
                    [tx[p] EXCEPT !.tickets =
                        {t \in @ : t.id # me.ticket} \cup {SaveSeat(cur, me.seat)}],
                    RegisterResponse(me.created, me.reg, me.ticket))
    /\ UNCHANGED <<events, now, seqvars, nreq>>

\* lines 88-89: a new free registration without a seat gets its ticket, then
\* lines 91-95
RegisterFreeTicket(p, token) ==
    /\ w[p].pc = "r_free"
    /\ LET me == w[p]
       IN IF FindTicket(p, me.reg) # {}
          THEN \* the registration already has a ticket: IntegrityError
               /\ Raise(p, me, "IntegrityError")
               /\ UNCHANGED <<nextTicketId, nextToken>>
          ELSE /\ ~TicketInsertWaits(p, me.reg)
               /\ nextTicketId' = nextTicketId + 1
               /\ nextToken' = nextToken + 1
               /\ IF TokenTaken(p, token)
                  THEN Raise(p, me, "IntegrityError")
                  ELSE Return(p, me,
                              [tx[p] EXCEPT !.tickets = @ \cup
                                  {NewTicket(nextTicketId, me.reg, NULL, token)}],
                              RegisterResponse(me.created, me.reg, nextTicketId))
    /\ UNCHANGED <<events, now, nextRegId, nextLogId, nreq>>

\* --------------------------------------------------------- CheckInView.post
\* mutation: the missing-token check is dropped
TokenMissing_Never(token) == FALSE

\* line 27: if not token
TokenMissing(token) == Falsy(token)

\* mutation: the is_used check is dropped
AlreadyUsed_Never(ticket) == FALSE

\* mutation: a ticket whose registration is not paid for is turned away too
AlreadyUsed_OrUnpaid(ticket) ==
    \/ ticket.is_used
    \/ \E r \in registrations : /\ r.id = ticket.registration
                                 /\ r.payment_status = "pending"

\* line 37: if ticket.is_used -> "Ticket already used"
AlreadyUsed(ticket) == ticket.is_used

\* mutation: checked_by is assigned only when the account is found
ResolveChecker_OnlyIfFound(checker) ==
    IF \E a \in TelegramAccount : a.telegram_user_id = checker
    THEN (CHOOSE a \in TelegramAccount : a.telegram_user_id = checker).user
    ELSE UNBOUND

\* lines 46-57: checked_by is assigned only inside "if checker_tid:"
ResolveChecker(checker) ==
    IF ~Falsy(checker)
    THEN IF \E a \in TelegramAccount : a.telegram_user_id = checker
         THEN (CHOOSE a \in TelegramAccount : a.telegram_user_id = checker).user
         ELSE NULL
    ELSE UNBOUND

\* mutation: redeeming a ticket also detaches it from its seat
mark_used_ClearsSeat(row, copy_is_used, t) ==
    IF ~copy_is_used
    THEN [row EXCEPT !.is_used = TRUE, !.used_at = t, !.seat = NULL]
    ELSE row

\* models.py lines 230-234: Ticket.mark_used() on the handler's copy of the row:
\* writes is_used and used_at only when the copy is not used yet
mark_used(row, copy_is_used, t) ==
    IF ~copy_is_used THEN [row EXCEPT !.is_used = TRUE, !.used_at = t] ELSE row

\* lines 24-57: enter the atomic block, read the ticket by token (a plain
\* SELECT, no row lock), reject a used ticket, resolve the checker
CheckInBegin(p, token, checker) ==
    /\ CanBegin(p)
    /\ nreq' = nreq + 1
    /\ LET req == [NoReq EXCEPT !.token = token, !.checker = checker]
           me == Started(p, "checkin", req)
           found == {t \in VisTickets(p) : t.token = token}
       IN IF TokenMissing(token)
          THEN Return(p, me, tx[p],
                      [NoResp EXCEPT !.code = 400, !.detail = "token is required"])
          ELSE IF found = {}
          THEN Return(p, me, tx[p],
                      [NoResp EXCEPT !.code = 404, !.detail = "Ticket not found"])
          ELSE LET t == CHOOSE t \in found : TRUE
               IN IF AlreadyUsed(t)
                  THEN Return(p, me, tx[p],
                              [NoResp EXCEPT !.code = 400,
                                             !.detail = "Ticket already used",
                                             !.ticket = t.id,
                                             !.used_at = t.used_at])
                  ELSE /\ w' = [w EXCEPT ![p] = [me EXCEPT !.pc = "c_mark",
                                   !.ticket = t.id,
                                   !.reg = t.registration,
                                   !.checked_by = ResolveChecker(checker)]]
                       /\ UNCHANGED <<dbvars, seatLock, tx>>
    /\ UNCHANGED <<events, now, seqvars>>

\* line 60: ticket.mark_used(): UPDATE of is_used/used_at on the ticket row; the
\* UPDATE waits while another transaction holds the row
CheckInMarkUsed(p) ==
    /\ w[p].pc = "c_mark"
    /\ LET me == w[p]
           cur == CHOOSE t \in VisTickets(p) : t.id = me.ticket
       IN /\ ~TicketRowLocked(p, me.ticket)
          /\ now' = now + 1
          /\ tx' = [tx EXCEPT ![p].tickets =
                       {t \in @ : t.id # me.ticket} \cup {mark_used(cur, FALSE, now')}]
          /\ w' = [w EXCEPT ![p] = [me EXCEPT !.pc = "c_log", !.used_at = now']]
    /\ UNCHANGED <<events, dbvars, seatLock, seqvars, nreq>>

\* lines 61-77: CheckInLog.objects.create(ticket, checked_by) and the response;
\* reading the unassigned checked_by raises and the atomic block rolls back
CheckInLogCreate(p) ==
    /\ w[p].pc = "c_log"
    /\ LET me == w[p]
       IN IF me.checked_by = UNBOUND
          THEN /\ Raise(p, me, "UnboundLocalError")
               /\ UNCHANGED nextLogId
          ELSE /\ nextLogId' = nextLogId + 1
               /\ Return(p, me,
                         [tx[p] EXCEPT !.logs = @ \cup
                             {[id |-> nextLogId, ticket |-> me.ticket,
                               checked_by |-> me.checked_by]}],
                         [NoResp EXCEPT !.code = 200, !.detail = "ok",
                                        !.ticket = me.ticket,
                                        !.used_at = me.used_at])
    /\ UNCHANGED <<events, now, nextRegId, nextTicketId, nextToken, nreq>>

\* ------------------------------------------------- admin: deleting a Seat
\* mutation: on_delete=SET_NULL / no protection
SeatProtected_Never(s) == FALSE

\* models.py lines 216-218: Ticket.seat is on_delete=PROTECT: a Seat that a
\* Ticket references is protected from deletion
SeatProtected(s) == \E t \in tickets : t.seat = s

\* admin.py lines 32-35: the Seat admin deletes seat s (Seat.delete()).  The
\* DELETE waits for the row lock of a register call that holds the seat; a
\* protected seat raises ProtectedError and nothing is deleted
DeleteSeat(p, s) ==
    /\ CanBegin(p)
    /\ nreq' = nreq + 1
    /\ s \in SeatIds /\ seats[s].status # DELETED
    /\ seatLock[s] = 0
    /\ LET me == Started(p, "delete_seat", [NoReq EXCEPT !.seat_id = s])
       IN IF SeatProtected(s)
          THEN Raise(p, me, "ProtectedError")
          ELSE Return(p, me,
                      [tx[p] EXCEPT !.seats =
                          {[id |-> s, status |-> DELETED, reserved_by |-> NULL]}],
                      [NoResp EXCEPT !.code = 200, !.detail = "deleted"])
    /\ UNCHANGED <<events, now, seqvars>>

\* ------------------------------------------------- admin: editing an Event
\* admin.py lines 19-23: the Event admin saves event slug with another
\* is_paid / base_price.  Registrations are not touched; a register call in
\* flight keeps working on the Event object it has read
EditEvent(p, slug, is_paid, base_price) ==
    /\ CanBegin(p)
    /\ nreq' = nreq + 1
    /\ <<is_paid, base_price>> # <<events[slug].is_paid, events[slug].base_price>>
    /\ events' = [events EXCEPT ![slug].is_paid = is_paid,
                                ![slug].base_price = base_price]
    /\ w' = [w EXCEPT ![p] =
                Finished(Started(p, "edit_event", [NoReq EXCEPT !.slug = slug]),
                         [NoResp EXCEPT !.code = 200, !.detail = "saved"])]
    /\ UNCHANGED <<dbvars, seatLock, tx, now, seqvars>>

\* ------------------------------------------------------------ specification
\* the database after event setup: e1 is the event on sale (paid or free),
\* e2 is another active event, e3 is inactive; seats 1 and 2 of e1 are FREE,
\* seat 3 belongs to e2, seat 4 of e1 is BLOCKED by the organiser; telegram
\* id 1 already has a UserProfile, telegram id 2 is new
InitDb ==
    /\ users = {1}
    /\ seats = [s \in SeatIds |->
                  [event |-> IF s = 3 THEN "e2" ELSE "e1",
                   status |-> IF s = 4 THEN BLOCKED ELSE FREE,
                   reserved_by |-> NULL]]
    /\ registrations = {}
    /\ tickets = {}
    /\ checkinlogs = {}
    /\ seatLock = [s \in SeatIds |-> 0]
    /\ tx = [p \in Workers |-> EmptyTx]
    /\ w = [p \in Workers |-> IdleWorker]
    /\ now = 0
    /\ nextRegId = 1
    /\ nextTicketId = 1
    /\ nextLogId = 1
    /\ nextToken = 1
    /\ nreq = 0

Init ==
    /\ \E paid \in BOOLEAN :
          events = [e \in EventSlugs |->
                      [is_active |-> e # "e3",
                       is_paid |-> IF e = "e1" THEN paid ELSE FALSE,
                       base_price |-> IF e = "e1" /\ paid THEN 100 ELSE NULL,
                       capacity |-> IF e = "e1" THEN EventCapacity ELSE NULL,
                       confirmed_count |-> 0]]
    /\ InitDb

\* request alphabet of the core specification
CoreSeatIds == {NULL, 1, 2}
CoreTokens == {0, 1, 2}
CoreCheckers == {NULL, 7, 8}

Next ==
    \E p \in Workers :
        \/ \E tid \in TelegramIds, seat_id \in CoreSeatIds :
              \* seats 1 and 2 are interchangeable: a request names seat 2
              \* only once seat 1 is taken or being requested
              /\ seat_id = 2 =>
                    \/ seats[1].status # FREE
                    \/ \E q \in Workers : /\ w[q].req.seat_id = 1
                                          /\ w[q].pc \notin {"idle", "done"}
              /\ RegisterBegin(p, "e1", tid, "name", seat_id, "")
        \/ RegisterRegistration(p)
        \/ RegisterSeat(p)
        \/ RegisterTicket(p, generate_ticket_token)
        \/ RegisterRepoint(p)
        \/ RegisterFreeTicket(p, generate_ticket_token)
        \/ \E token \in CoreTokens, checker \in CoreCheckers :
              \* a request without token is answered before the checker
              \* is read: it carries none
              /\ token = 0 => checker = NULL
              /\ CheckInBegin(p, token, checker)
        \/ CheckInMarkUsed(p)
        \/ CheckInLogCreate(p)

Spec == Init /\ [][Next]_vars

\* ------------------------------------------- register request specification
\* EventRegisterView.post over the whole range of its inputs: any slug, a
\* missing telegram_id or full_name, a promo code, and every kind of seat_id
MaxRegisterRequests == 2   \* register requests served in one behaviour

\* e1 is active, e3 is inactive, "zz" is the slug of no event
RegisterSlugs == {"e1", "e3", "zz"}
RegisterTelegramIds == {NULL, 1, 2}
RegisterNames == {"", "name"}
RegisterPromos == {"", "ABC"}
\* absent, 0, FREE seat 1 of e1, seat 3 of e2, BLOCKED seat 4, no such seat 5
RegisterSeatIds == {NULL, 0, 1, 3, 4, 5}

\* e1 is paid or free, with or without a base_price
InitRegister ==
    /\ \E paid \in BOOLEAN, price \in {NULL, 100} :
          events = [e \in EventSlugs |->
                      [is_active |-> e # "e3",
                       is_paid |-> IF e = "e1" THEN paid ELSE FALSE,
                       base_price |-> IF e = "e1" THEN price ELSE NULL,
                       capacity |-> IF e = "e1" THEN EventCapacity ELSE NULL,
                       confirmed_count |-> 0]]
    /\ InitDb

\* the fields a refused request never reads are left at one value: a request
\* for a slug without active event or without telegram_id / full_name is
\* answered before its seat_id and promo_code are read
RegisterInput(slug, tid, name, seat_id, promo) ==
    /\ slug # "e1" => tid = 2 /\ name = "name"
    /\ tid = NULL => name = "name"
    /\ name = "" => tid = 2
    /\ (slug # "e1" \/ tid = NULL \/ name = "") => seat_id = NULL /\ promo = ""
    \* promo_code only lands in a new Registration's defaults, whatever the
    \* seat_id: it is varied on the requests without seat_id
    /\ promo # "" => seat_id = NULL

NextRegister ==
    \E p \in Workers :
        \/ /\ nreq < MaxRegisterRequests
           /\ \E slug \in RegisterSlugs, tid \in RegisterTelegramIds,
                 name \in RegisterNames, seat_id \in RegisterSeatIds,
                 promo \in RegisterPromos :
                 /\ RegisterInput(slug, tid, name, seat_id, promo)
                 /\ RegisterBegin(p, slug, tid, name, seat_id, promo)
        \/ RegisterRegistration(p)
        \/ RegisterSeat(p)
        \/ RegisterTicket(p, generate_ticket_token)
        \/ RegisterRepoint(p)
        \/ RegisterFreeTicket(p, generate_ticket_token)

SpecRegister == InitRegister /\ [][NextRegister]_vars

\* ------------------------------------------------ token draw specification
\* register with generate_ticket_token() drawing from a source so small that
\* draws repeat: the unique constraint on Ticket.token decides
TokenDraws == {1, 2}

NextTokens ==
    \E p \in Workers :
        \/ /\ nreq < MaxRegisterRequests
           /\ \E tid \in TelegramIds, seat_id \in CoreSeatIds :
                 RegisterBegin(p, "e1", tid, "name", seat_id, "")
        \/ RegisterRegistration(p)
        \/ RegisterSeat(p)
        \/ \E token \in TokenDraws : RegisterTicket(p, token)
        \/ RegisterRepoint(p)
        \/ \E token \in TokenDraws : RegisterFreeTicket(p, token)

SpecTokens == Init /\ [][NextTokens]_vars

\* ---------------------------------------------- seat inventory specification
\* register, check-in and the admin's seat deletion over the seats of e1:
\* FREE seat 1 and BLOCKED seat 4
MaxInventoryRequests == 2   \* requests served in one behaviour

InventorySeatIds == {NULL, 1, 4}

NextInventory ==
    \E p \in Workers :
        \/ /\ nreq < MaxInventoryRequests
           /\ \E tid \in TelegramIds, seat_id \in InventorySeatIds :
                 RegisterBegin(p, "e1", tid, "name", seat_id, "")
        \/ /\ nreq < MaxInventoryRequests
           /\ \E checker \in {NULL, 7} : CheckInBegin(p, 1, checker)
        \/ /\ nreq < MaxInventoryRequests
           /\ \E s \in InventorySeatIds \ {NULL} : DeleteSeat(p, s)
        \/ RegisterRegistration(p)
        \/ RegisterSeat(p)
        \/ RegisterTicket(p, generate_ticket_token)
        \/ RegisterRepoint(p)
        \/ RegisterFreeTicket(p, generate_ticket_token)
        \/ CheckInMarkUsed(p)
        \/ CheckInLogCreate(p)

SpecInventory == Init /\ [][NextInventory]_vars

\* ----------------------------------------------------- pricing specification
\* register with and without promo code while the admin changes the price
\* and the paid flag of the event on sale
MaxPricingRequests == 3   \* requests served in one behaviour

\* one identity: the calls that find a Registration are its repeated calls
PricingTelegramIds == {1}
PricingSeatIds == {NULL, 1}
PricingPrices == {NULL, 200}

NextPricing ==
    \E p \in Workers :
        \/ /\ nreq < MaxPricingRequests
           /\ \E tid \in PricingTelegramIds, seat_id \in PricingSeatIds,
                 promo \in RegisterPromos :
                 RegisterBegin(p, "e1", tid, "name", seat_id, promo)
        \/ /\ nreq < MaxPricingRequests
           /\ \E is_paid \in BOOLEAN, base_price \in PricingPrices :
                 EditEvent(p, "e1", is_paid, base_price)
        \/ RegisterRegistration(p)
        \/ RegisterSeat(p)
        \/ RegisterTicket(p, generate_ticket_token)
        \/ RegisterRepoint(p)
        \/ RegisterFreeTicket(p, generate_ticket_token)

SpecPricing == Init /\ [][NextPricing]_vars

\* ---------------------------------------------------- progress specification
\* register and check-in contending for one seat and one ticket, with a token
\* source small enough for a ticket insert to fail and roll its transaction
\* back.  A handler that is not waiting for a row takes its next step: the
\* server runs every request it has accepted
MaxLiveRequests == 3   \* requests served in one behaviour

LiveSeatIds == {NULL, 1}

InFlight(p) == w[p].pc \notin {"idle", "done"}

\* the next statement of worker p's handler
Advance(p) ==
    \/ RegisterRegistration(p)
    \/ RegisterSeat(p)
    \/ \E token \in TokenDraws : RegisterTicket(p, token)
    \/ RegisterRepoint(p)
    \/ \E token \in TokenDraws : RegisterFreeTicket(p, token)
    \/ CheckInMarkUsed(p)
    \/ CheckInLogCreate(p)

NextLive ==
    \E p \in Workers :
        \/ /\ nreq < MaxLiveRequests
           /\ \E tid \in TelegramIds, seat_id \in LiveSeatIds :
                 RegisterBegin(p, "e1", tid, "name", seat_id, "")
        \/ /\ nreq < MaxLiveRequests
           /\ CheckInBegin(p, 1, 7)
        \/ Advance(p)

SpecLive ==
    Init /\ [][NextLive]_vars /\ \A p \in Workers : WF_vars(Advance(p))


\* ------------------------------------------------------------- properties
RegisterDone(p) == w[p].pc = "done" /\ w[p].kind = "register"
CheckInDone(p) == w[p].pc = "done" /\ w[p].kind = "checkin"
Succeeded(p) == w[p].resp.code \in {200, 201}
Unavailable(p) == w[p].resp.code = 400 /\ w[p].resp.detail = "Seat is not available"

\* C1: at-most-once seat sale.  Of the register requests that target the
\* same seat of the active event, at most one acquires it (finished with
\* success, or still in flight past the seat step); the seat is then
\* SOLD/RESERVED on behalf of that request's user, and every other finished
\* request for that seat was answered "Seat is not available".
C1_AtMostOnceSeatSale ==
    \A s \in SeatIds :
        LET R == {p \in Workers : RegisterDone(p) /\ w[p].req.seat_id = s}
            Won == {p \in R : Succeeded(p)}
            Holding == {p \in Workers : w[p].seat = s}
        IN /\ Cardinality(Won \cup Holding) <= 1
           /\ \A p \in R \ Won : Unavailable(p)
           /\ \A p \in Won :
                 /\ seats[s].status = AcquiredStatus(events[w[p].req.slug].is_paid)
                 /\ seats[s].reserved_by = w[p].req.tid
           /\ R # {} => seats[s].status \in {SOLD, RESERVED}

\* two requests of different users for seat 1 have finished: one got the seat,
\* the other was refused
C1_Witness ==
    \E p, q \in Workers :
        /\ RegisterDone(p) /\ RegisterDone(q)
        /\ w[p].req.seat_id = 1 /\ w[q].req.seat_id = 1
        /\ w[p].req.tid # w[q].req.tid
        /\ Succeeded(p) /\ Unavailable(q)

\* C2: a seat is never sold twice: in every committed state each seat is
\* referenced by at most one Ticket.
C2_SeatNeverSoldTwice ==
    \A t1, t2 \in tickets : (t1.seat # NULL /\ t1.seat = t2.seat) => t1 = t2

\* a ticket holds seat 1, a later request for seat 1 was refused, and a
\* check-in has been served
C2_Witness ==
    /\ \E t \in tickets : t.seat = 1
    /\ \E p \in Workers : RegisterDone(p) /\ w[p].req.seat_id = 1 /\ Unavailable(p)
    /\ \E p \in Workers : CheckInDone(p) /\ w[p].resp.code = 200


LogsOf(id) == {l \in checkinlogs : l.ticket = id}

\* C3: at-most-once redemption.  For every ticket at most one check-in is
\* answered ok and at most one CheckInLog row references the ticket.
C3_AtMostOnceRedemption ==
    \A t \in tickets :
        /\ Cardinality(LogsOf(t.id)) <= 1
        /\ Cardinality({p \in Workers : CheckInDone(p) /\ w[p].resp.code = 200
                                         /\ w[p].req.token = t.token}) <= 1

\* C4: Ticket.is_used is monotonic.  A committed ticket that is used stays
\* used in every step, and a committed ticket becomes used only in the step
\* in which a check-in presenting that ticket's token commits with status ok.
C4_IsUsedMonotonic ==
    [][ /\ \A t \in tickets :
              t.is_used => \E u \in tickets' : u.id = t.id /\ u.is_used
        /\ \A u \in tickets' :
              (u.is_used /\ ~(\E t \in tickets : t.id = u.id /\ t.is_used))
                  => \E p \in Workers :
                        /\ CheckInLogCreate(p)
                        /\ w[p].req.token = u.token
                        /\ w'[p].resp.code = 200 ]_vars

\* a used ticket that a later check-in tried again and that a register request
\* has repointed to seat 2 is still used
C4_Witness ==
    \E t \in tickets :
        /\ t.is_used /\ t.seat = 2
        /\ seats[1].reserved_by = seats[2].reserved_by
        /\ \E p \in Workers : CheckInDone(p) /\ w[p].req.token = t.token
                               /\ w[p].resp.code = 200

\* the step leaves a check-in request (token, checker) recorded on worker p:
\* what every CheckInBegin(p, token, checker) step does
CheckInAsked(p, token, checker) ==
    /\ nreq' # nreq
    /\ w'[p].kind = "checkin"
    /\ w'[p].req.token = token
    /\ w'[p].req.checker = checker

\* C5: a check-in that presents the token of a ticket already committed as
\* used is answered 400 "Ticket already used" with the stored used_at, and the
\* step changes no ticket and appends no CheckInLog row.
C5_UsedTicketRejected ==
    [][ \A p \in Workers, token \in CoreTokens, checker \in CoreCheckers :
          (/\ CheckInAsked(p, token, checker)
           /\ \E t \in tickets : t.token = token /\ t.is_used
           /\ CheckInBegin(p, token, checker))
          => /\ w'[p].pc = "done"
             /\ w'[p].resp.code = 400
             /\ w'[p].resp.detail = "Ticket already used"
             /\ \E t \in tickets : /\ t.token = token
                                   /\ t.used_at # NULL
                                   /\ w'[p].resp.used_at = t.used_at
             /\ tickets' = tickets
             /\ checkinlogs' = checkinlogs ]_vars

\* the second of two check-ins of one token was refused with the used_at of
\* the first, and the ticket has its single log row
C5_Witness ==
    \E p \in Workers, t \in tickets :
        /\ CheckInDone(p) /\ w[p].resp.detail = "Ticket already used"
        /\ w[p].req.token = t.token
        /\ t.is_used /\ w[p].resp.used_at = t.used_at
        /\ Cardinality(LogsOf(t.id)) = 1

\* C6: the checker identity is optional.  A check-in without a checker that
\* is not refused for its token succeeds: status ok, the ticket is used and
\* carries a CheckInLog row with a null checker.
C6_CheckerOptional ==
    \A p \in Workers :
        (CheckInDone(p) /\ Falsy(w[p].req.checker)
           /\ w[p].resp.detail \notin
                 {"token is required", "Ticket not found", "Ticket already used"})
        => /\ w[p].resp.code = 200
           /\ \E t \in tickets : /\ t.id = w[p].resp.ticket
                                 /\ t.is_used
                                 /\ \E l \in LogsOf(t.id) : l.checked_by = NULL

\* a checker reference that matches no TelegramAccount
Unresolved(checker) ==
    ~Falsy(checker) /\ ~(\E a \in TelegramAccount : a.telegram_user_id = checker)

\* C7: a check-in with a valid unused token and a checker reference that
\* resolves to no identity is not refused, and it completes with status ok,
\* the ticket used, and exactly one new CheckInLog row whose checker is null.
C7_UnknownCheckerProceeds ==
    [][ \A p \in Workers :
          /\ \A token \in CoreTokens, checker \in CoreCheckers :
                (/\ CheckInAsked(p, token, checker)
                 /\ Unresolved(checker)
                 /\ \E t \in tickets : t.token = token /\ ~t.is_used
                 /\ CheckInBegin(p, token, checker))
                => w'[p].pc = "c_mark"
          /\ (/\ w[p].pc = "c_log"
              /\ Unresolved(w[p].req.checker)
              /\ CheckInLogCreate(p))
                => /\ w'[p].pc = "done"
                   /\ w'[p].resp.code = 200
                   /\ \E t \in tickets' : t.id = w[p].ticket /\ t.is_used
                                          /\ t.used_at = w'[p].resp.used_at
                   /\ \E l \in checkinlogs' :
                         /\ l.ticket = w[p].ticket
                         /\ l.checked_by = NULL
                         /\ checkinlogs' = checkinlogs \cup {l}
                         /\ l \notin checkinlogs ]_vars

\* a check-in by the unknown checker 8 was answered ok and left a log row
\* with a null checker
C7_Witness ==
    \E p \in Workers, t \in tickets :
        /\ CheckInDone(p) /\ w[p].req.checker = 8 /\ w[p].resp.code = 200
        /\ t.id = w[p].resp.ticket /\ t.is_used
        /\ \E l \in LogsOf(t.id) : l.checked_by = NULL

\* C8: a check-in with a missing/empty token is answered 400, one with a token
\* of no ticket is answered 404; neither changes a ticket or adds a log row.
C8_BadTokenRejected ==
    [][ \A p \in Workers, token \in CoreTokens, checker \in CoreCheckers :
          (/\ CheckInAsked(p, token, checker)
           /\ Falsy(token) \/ \A t \in tickets : t.token # token
           /\ CheckInBegin(p, token, checker))
          => /\ Falsy(token)
                  => /\ w'[p].pc = "done" /\ w'[p].resp.code = 400
                     /\ tickets' = tickets /\ checkinlogs' = checkinlogs
             /\ (~Falsy(token) /\ ~(\E t \in tickets : t.token = token))
                  => /\ w'[p].pc = "done" /\ w'[p].resp.code = 404
                     /\ tickets' = tickets /\ checkinlogs' = checkinlogs ]_vars

\* with an unused ticket in the database, one check-in was answered 404 and
\* one 400 "token is required"; the ticket is untouched and there is no log
C8_Witness ==
    /\ \E p, q \in Workers :
          /\ CheckInDone(p) /\ w[p].resp.code = 404
          /\ CheckInDone(q) /\ w[q].resp.code = 400
          /\ w[q].resp.detail = "token is required"
    /\ tickets # {}
    /\ \A t \in tickets : ~t.is_used
    /\ checkinlogs = {}

\* two finished register requests of the same (event, identity) without seat
SeatlessPair(p, q) ==
    /\ p # q
    /\ RegisterDone(p) /\ RegisterDone(q)
    /\ Succeeded(p) /\ Succeeded(q)
    /\ w[p].req.slug = w[q].req.slug /\ w[p].req.tid = w[q].req.tid
    /\ w[p].req.seat_id = NULL /\ w[q].req.seat_id = NULL

TicketsOf(reg) == {t \in tickets : t.registration = reg}

\* C9 as stated: two register calls with the same (event, identity) and no
\* seat_id yield the same Registration id and exactly one Ticket exists for
\* that registration afterwards.
C9_ExactlyOneTicket ==
    \A p, q \in Workers :
        SeatlessPair(p, q)
        => /\ w[p].resp.reg = w[q].resp.reg
           /\ Cardinality(TicketsOf(w[p].resp.reg)) = 1

\* C9 amended: two register calls with the same (event, identity) and no
\* seat_id yield the same Registration id, and at most one Ticket exists for
\* that registration afterwards: exactly one when the event is free and one
\* of the two calls created the Registration.
C9_IdempotentRegistration ==
    \A p, q \in Workers :
        SeatlessPair(p, q)
        => /\ w[p].resp.reg = w[q].resp.reg
           /\ w[p].resp.reg # NULL
           /\ Cardinality(TicketsOf(w[p].resp.reg)) <= 1
           /\ (~events[w[p].req.slug].is_paid /\ w[p].resp.code = 201)
                 => Cardinality(TicketsOf(w[p].resp.reg)) = 1

\* on the free event the first call created the registration and its
\* ticket, the replay returned the same registration
C9_Witness ==
    \E p, q \in Workers :
        /\ SeatlessPair(p, q)
        /\ ~events[w[p].req.slug].is_paid
        /\ w[p].resp.code = 201 /\ w[q].resp.code = 200
        /\ w[p].resp.reg = w[q].resp.reg
        /\ Cardinality(TicketsOf(w[p].resp.reg)) = 1

\* C10: at most one Registration per (event, user), committed or not; a
\* register request never fails on a duplicate: every finished request that
\* passed seat acquisition returns the one registration of its pair.
C10_OneRegistrationPerPair ==
    LET all == registrations \cup UNION {tx[p].regs : p \in Workers}
    IN /\ \A r1, r2 \in all :
             (r1.event = r2.event /\ r1.user = r2.user) => r1 = r2
       /\ \A p \in Workers :
             RegisterDone(p)
             => /\ w[p].resp.code # 500
                /\ Succeeded(p)
                     => \E r \in registrations :
                           /\ r.id = w[p].resp.reg
                           /\ r.event = w[p].req.slug
                           /\ r.user = w[p].req.tid

\* the only two requests, both of the known user 1 for event e1, one with a
\* seat: one created the registration, the other reused it
C10_Witness ==
    /\ nreq = 2
    /\ \E p, q \in Workers :
          /\ RegisterDone(p) /\ RegisterDone(q)
          /\ w[p].req.tid = 1 /\ w[q].req.tid = 1
          /\ w[p].req.seat_id = 1 /\ w[q].req.seat_id = NULL
          /\ {w[p].resp.code, w[q].resp.code} = {200, 201}
          /\ w[p].resp.reg = w[q].resp.reg
    /\ Cardinality(registrations) = 1

\* ---------------------------------------------------------------------------
\* C11: in every reachable state each Ticket belongs to exactly one
\* Registration and no Registration has more than one Ticket, whatever
\* register calls, with or without seat, repeated or concurrent, were served.
C11_TicketRegistrationOneToOne ==
    /\ \A t \in tickets :
          Cardinality({r \in registrations : r.id = t.registration}) = 1
    /\ \A r \in registrations : Cardinality(TicketsOf(r.id)) <= 1

\* one user registered with seat 2 after seat 1 and also without seat: the
\* registration has its single ticket, now on seat 2
C11_Witness ==
    \E p, q \in Workers :
        /\ RegisterDone(p) /\ RegisterDone(q) /\ Succeeded(p) /\ Succeeded(q)
        /\ w[p].req.tid = w[q].req.tid
        /\ w[p].req.seat_id = 2 /\ w[q].req.seat_id = NULL
        /\ w[p].resp.reg = w[q].resp.reg
        /\ \E t \in tickets : /\ TicketsOf(w[p].resp.reg) = {t}
                              /\ t.seat = 2
                              /\ seats[1].reserved_by = w[p].req.tid

\* C12: free-event auto-confirmation.  Every register call on a free event
\* that returns success yields a CONFIRMED Registration and a Ticket for it;
\* a free-event Registration is never PENDING and never without a ticket.
C12_FreeEventAutoConfirmation ==
    /\ \A p \in Workers :
          (RegisterDone(p) /\ Succeeded(p) /\ ~events[w[p].req.slug].is_paid)
          => \E r \in registrations : /\ r.id = w[p].resp.reg
                                      /\ r.status = "confirmed"
                                      /\ TicketsOf(r.id) # {}
    /\ \A r \in registrations :
          ~events[r.event].is_paid => /\ r.status # "pending"
                                      /\ TicketsOf(r.id) # {}

\* C13: a successful seat acquisition in register leaves the seat RESERVED
\* when the event is paid and SOLD when it is free, reserved by the
\* registering user.
C13_AcquiredSeatStatus ==
    /\ \A p \in Workers :
          (RegisterDone(p) /\ Succeeded(p) /\ w[p].req.seat_id \in SeatIds)
          => LET seat == seats[w[p].req.seat_id]
             IN /\ events[w[p].req.slug].is_paid => seat.status = RESERVED
                /\ ~events[w[p].req.slug].is_paid => seat.status = SOLD
                /\ seat.reserved_by = w[p].req.tid
    /\ \A s \in SeatIds :
          /\ seats[s].status = RESERVED => events[seats[s].event].is_paid
          /\ seats[s].status = SOLD => ~events[seats[s].event].is_paid
          /\ seats[s].status \in {RESERVED, SOLD} => seats[s].reserved_by \in users

\* the new user 2 acquired seat 1 and user 1 acquired seat 2
C13_Witness ==
    \E p, q \in Workers :
        /\ RegisterDone(p) /\ Succeeded(p) /\ w[p].req.seat_id = 1 /\ w[p].req.tid = 2
        /\ RegisterDone(q) /\ Succeeded(q) /\ w[q].req.seat_id = 2 /\ w[q].req.tid = 1
        /\ seats[1].reserved_by = 2 /\ seats[2].reserved_by = 1
        /\ seats[1].status = seats[2].status /\ seats[1].status \in {RESERVED, SOLD}

\* C14: a Registration newly created by register has promo_code as given,
\* final_price equal to the event's base_price (0 when base_price is absent),
\* payment_status NONE for a free and PENDING for a paid event, and status
\* CONFIRMED for a free and PENDING for a paid event.
C14_NewRegistrationDefaults ==
    /\ \A r \in registrations \cup UNION {tx[p].regs : p \in Workers} :
          LET e == events[r.event]
          IN /\ e.base_price = NULL => r.final_price = 0
             /\ e.base_price # NULL => r.final_price = e.base_price
             /\ e.is_paid => r.payment_status = "pending" /\ r.status = "pending"
             /\ ~e.is_paid => r.payment_status = "none" /\ r.status = "confirmed"
    /\ \A p \in Workers :
          (RegisterDone(p) /\ w[p].resp.code = 201)
          => \E r \in registrations : /\ r.id = w[p].resp.reg
                                      /\ r.promo_code = w[p].req.promo
    /\ \A p \in Workers :
          (w[p].kind = "register" /\ w[p].pc # "done" /\ w[p].created)
          => \E r \in tx[p].regs : /\ r.id = w[p].reg
                                   /\ r.promo_code = w[p].req.promo

\* a registration was created with promo code ABC on a paid event without
\* base_price: final_price 0, PENDING
C14_Witness ==
    \E p \in Workers, r \in registrations :
        /\ RegisterDone(p) /\ w[p].resp.code = 201 /\ w[p].req.promo = "ABC"
        /\ r.id = w[p].resp.reg /\ r.promo_code = "ABC"
        /\ events[r.event].is_paid /\ events[r.event].base_price = NULL
        /\ r.final_price = 0 /\ r.status = "pending" /\ r.payment_status = "pending"

\* C15: seat acquisition in register fails with NotFound (404) when no seat
\* with the given id exists under the requested event, also when the seat
\* belongs to another event, and with Unavailable (400) when the seat is
\* RESERVED, SOLD or BLOCKED; the failing step leaves every seat's status and
\* reserving party unchanged and creates or repoints no ticket.
C15_SeatAcquisitionFailure ==
    [][ \A p \in Workers :
          (w[p].pc = "r_seat" /\ RegisterSeat(p))
          => LET s == w[p].req.seat_id
                 absent == s \notin SeatIds \/ seats[s].event # w[p].req.slug
             IN /\ absent
                     => /\ w'[p].pc = "done"
                        /\ w'[p].resp.code = 404
                        /\ w'[p].resp.detail = "Seat not found"
                        /\ seats' = seats /\ tickets' = tickets
                        /\ tx'[p].seats = {} /\ tx'[p].tickets = {}
                /\ (~absent /\ seats[s].status \in {RESERVED, SOLD, BLOCKED})
                     => /\ w'[p].pc = "done"
                        /\ w'[p].resp.code = 400
                        /\ w'[p].resp.detail = "Seat is not available"
                        /\ seats' = seats /\ tickets' = tickets
                        /\ tx'[p].seats = {} /\ tx'[p].tickets = {} ]_vars

\* user 1 holds a ticket on seat 1 and then asked for seat 3 of another
\* event: 404, the ticket is still on seat 1 and seat 3 is untouched
C15_Witness ==
    \E p, q \in Workers, t \in tickets :
        /\ RegisterDone(p) /\ Succeeded(p) /\ w[p].req.seat_id = 1 /\ w[p].req.tid = 1
        /\ RegisterDone(q) /\ w[q].req.seat_id = 3 /\ w[q].req.tid = 1
        /\ w[q].resp.code = 404 /\ w[q].resp.detail = "Seat not found"
        /\ t.registration = w[p].resp.reg /\ t.seat = 1
        /\ seats[3].status = FREE /\ seats[3].reserved_by = NULL

\* a register step of worker p that ends the call with a seat failure
SeatFailure(p) ==
    /\ w[p].pc = "r_seat"
    /\ w'[p].pc = "done"
    /\ w'[p].resp.detail \in {"Seat not found", "Seat is not available"}

\* C16: when seat acquisition fails (Unavailable or NotFound) in a register
\* call that fetched or created the Registration, the Registration row is
\* committed while no seat mutation and no ticket of that call is committed.
C16_RegistrationSurvivesSeatFailure ==
    [][ \A p \in Workers :
          (SeatFailure(p) /\ RegisterSeat(p))
          => /\ \E r \in registrations' : /\ r.id = w[p].reg
                                           /\ r.event = w[p].req.slug
                                           /\ r.user = w[p].req.tid
             /\ seats' = seats
             /\ tickets' = tickets
             /\ \A q \in Workers : tx'[q].seats = tx[q].seats ]_vars

\* the new user 2 asked for the BLOCKED seat 4: refused, and the registration
\* created by that call is in the database without ticket
C16_Witness ==
    \E p \in Workers, r \in registrations :
        /\ RegisterDone(p) /\ Unavailable(p)
        /\ w[p].req.tid = 2 /\ w[p].req.seat_id = 4
        /\ r.user = 2 /\ r.event = w[p].req.slug
        /\ TicketsOf(r.id) = {}
        /\ seats[4].status = BLOCKED /\ seats[4].reserved_by = NULL

\* C17: when seat acquisition fails with Unavailable or NotFound the whole
\* register operation is aborted: the call leaves the Registration rows and
\* the identity records as they were (the call's transaction ends in the
\* failing step, which therefore publishes nothing).
C17_SeatFailureAbortsAll ==
    [][ \A p \in Workers :
          (SeatFailure(p) /\ RegisterSeat(p))
          => /\ registrations' = registrations
             /\ users' = users ]_vars

\* the step leaves a register request for slug recorded on worker p: what
\* every RegisterBegin(p, slug, ...) step does
RegisterAsked(p, slug) ==
    /\ nreq' # nreq
    /\ w'[p].kind = "register"
    /\ w'[p].req.slug = slug

\* C18: an inactive event accepts no new registrations: a register call whose
\* slug matches no event or an event with is_active = false is answered 404
\* "Event not found" and creates no user record, registration or ticket and
\* changes no seat; no Registration row ever belongs to such an event.
C18_InactiveEventRejected ==
    /\ [](\A r \in registrations \cup UNION {tx[p].regs : p \in Workers} :
             r.event \in EventSlugs /\ events[r.event].is_active)
    /\ [][ \A p \in Workers, slug \in RegisterSlugs :
             (/\ RegisterAsked(p, slug)
              /\ slug \notin EventSlugs \/ ~events[slug].is_active
              /\ RegisterBegin(p, slug, w'[p].req.tid, w'[p].req.name,
                               w'[p].req.seat_id, w'[p].req.promo))
             => /\ w'[p].pc = "done"
                /\ w'[p].resp.code = 404
                /\ w'[p].resp.detail = "Event not found"
                /\ users' = users /\ registrations' = registrations
                /\ tickets' = tickets /\ seats' = seats
                /\ tx'[p] = EmptyTx ]_vars

\* the new user 2 asked for the inactive event e3 and for the unknown slug
\* "zz": both answered 404, and the database is as it was
C18_Witness ==
    /\ \E p, q \in Workers :
          /\ RegisterDone(p) /\ w[p].req.slug = "e3" /\ w[p].req.tid = 2
          /\ RegisterDone(q) /\ w[q].req.slug = "zz" /\ w[q].req.tid = 2
          /\ w[p].resp.code = 404 /\ w[q].resp.code = 404
          /\ w[p].resp.detail = "Event not found"
    /\ users = {1} /\ registrations = {} /\ tickets = {}

\* C19: register creates or modifies a ticket only when (a) a seat was
\* acquired in that call (the call holds the seat's row lock), or (b) the event
\* is free, no seat was requested and the Registration was newly created in
\* that call.  In particular a paid-event register without seat and a replayed
\* seatless register on an existing registration return no ticket and leave
\* the tickets as they are.
C19_TicketOnlyWhenDue ==
    /\ [](\A p \in Workers :
             (/\ RegisterDone(p) /\ Succeeded(p) /\ w[p].req.seat_id = NULL
              /\ events[w[p].req.slug].is_paid \/ w[p].resp.code = 200)
             => w[p].resp.ticket = NULL)
    /\ [][ tickets' # tickets
           => \E p \in Workers :
                 /\ w[p].kind = "register" /\ w[p].pc # "done" /\ w'[p].pc = "done"
                 /\ \/ /\ w[p].req.seat_id \in SeatIds
                       /\ seatLock[w[p].req.seat_id] = p
                    \/ /\ ~events[w[p].req.slug].is_paid
                       /\ w[p].req.seat_id = NULL
                       /\ w[p].reg \notin Ids(registrations)
                       /\ w[p].reg \in Ids(tx[p].regs) ]_vars

\* on the paid event user 1 registered without seat and got no ticket, then
\* registered with seat 1 and got the registration's ticket on that seat
C19_Witness ==
    \E p, q \in Workers, t \in tickets :
        /\ events["e1"].is_paid
        /\ RegisterDone(p) /\ w[p].req.seat_id = NULL /\ w[p].resp.code = 201
        /\ w[p].resp.ticket = NULL
        /\ RegisterDone(q) /\ w[q].req.seat_id = 1 /\ w[q].resp.code = 200
        /\ w[q].resp.reg = w[p].resp.reg
        /\ tickets = {t} /\ t.id = w[q].resp.ticket /\ t.seat = 1

\* worker q's get_or_create waits behind the Registration row of the same
\* (event, user) that worker p has created and not yet committed
RacesBehind(q, p) ==
    /\ p # q
    /\ w[q].kind = "register" /\ w[q].pc = "r_reg"
    /\ \E r \in tx[p].regs : r.event = w[q].req.slug /\ r.user = w[q].req.tid

\* C20: a register call that completes successfully returns 201 if the
\* Registration was newly created by that call and 200 if it already existed;
\* among concurrent successful calls for the same (event, user) exactly one
\* returns 201: of the calls racing for a pair without Registration, the one
\* that created the row returns 201 and the calls behind it, which find the
\* row, return 200.
C20_CreatedStatus ==
    [][ \A p \in Workers :
          (w[p].kind = "register" /\ w[p].pc \notin {"idle", "done"}
             /\ w'[p].pc = "done")
          => /\ w'[p].resp.code = 201 => w'[p].resp.reg \notin Ids(registrations)
             /\ w'[p].resp.code = 200 => w'[p].resp.reg \in Ids(registrations)
             /\ (\E q \in Workers : RacesBehind(q, p)) => w'[p].resp.code = 201 ]_vars

\* C21: a ticket's token is fixed at creation: no step (repeated register for
\* the same registration, seat repointing, check-in) removes a ticket or
\* changes the token of an existing ticket, committed or in a transaction.
C21_TokenFixed ==
    [][ /\ \A t \in tickets : \E u \in tickets' : u.id = t.id /\ u.token = t.token
        /\ \A p \in Workers : \A u \in tx'[p].tickets : \A t \in tickets :
              u.id = t.id => u.token = t.token ]_vars

\* the first ticket, token 1, was issued on seat 1, repointed to seat 2 by a
\* second register call and checked in: it still carries token 1
C21_Witness ==
    \E t \in tickets, p, q \in Workers :
        /\ t.token = 1 /\ t.id = 1 /\ t.seat = 2 /\ t.is_used
        /\ nextToken = 2
        /\ RegisterDone(p) /\ w[p].req.seat_id = 2 /\ w[p].resp.ticket = t.id
        /\ CheckInDone(q) /\ w[q].req.token = 1 /\ w[q].resp.code = 200

\* C22: token uniqueness.  In every reachable state no two tickets have the
\* same token; a ticket creation whose freshly drawn token equals that of an
\* existing ticket fails (500) and its transaction is rolled back: nothing of
\* the call is persisted.
C22_TokenUnique ==
    /\ [](\A t1, t2 \in tickets : t1.token = t2.token => t1.id = t2.id)
    /\ [][ \A p \in Workers, token \in TokenDraws :
             (/\ w[p].pc \in {"r_ticket", "r_free"}
              /\ \E t \in tickets : t.token = token
              /\ \A t \in tickets : t.registration # w[p].reg
              /\ RegisterTicket(p, token) \/ RegisterFreeTicket(p, token))
             => /\ w'[p].pc = "done"
                /\ w'[p].resp.code = 500
                /\ UNCHANGED dbvars
                /\ tx'[p] = EmptyTx ]_vars

\* a ticket exists, and a register call of another user with seat 2 ended in
\* a 500: its draw repeated the token; seat 2 is FREE again and the user has
\* no registration
C22_Witness ==
    \E p \in Workers :
        /\ RegisterDone(p) /\ w[p].resp.code = 500 /\ w[p].req.seat_id = 2
        /\ Cardinality(tickets) = 1
        /\ seats[2].status = FREE
        /\ \A r \in registrations : r.user # w[p].req.tid

\* C23: redemption and its audit record are atomic.  In every committed state
\* a ticket is used if and only if at least one CheckInLog row references it;
\* a check-in that fails after marking the ticket leaves the ticket unused
\* and no log row: the failing step changes nothing in the database.
C23_RedemptionAtomic ==
    /\ [](\A t \in tickets : t.is_used <=> LogsOf(t.id) # {})
    /\ [](\A l \in checkinlogs : \E t \in tickets : t.id = l.ticket)
    /\ [][ \A p \in Workers :
             (w[p].pc = "c_log" /\ w'[p].pc = "done" /\ w'[p].resp.code # 200)
             => UNCHANGED dbvars /\ tx'[p] = EmptyTx ]_vars

\* a check-in without checker failed after mark_used(): the ticket is unused
\* and has no log row
C23_Witness ==
    \E p \in Workers, t \in tickets :
        /\ CheckInDone(p) /\ w[p].resp.code = 500
        /\ w[p].resp.detail = "UnboundLocalError"
        /\ t.token = w[p].req.token
        /\ ~t.is_used /\ t.used_at = NULL /\ LogsOf(t.id) = {}

\* the step leaves an admin deletion of seat s recorded on worker p
DeleteAsked(p, s) ==
    /\ nreq' # nreq
    /\ w'[p].kind = "delete_seat"
    /\ w'[p].req.seat_id = s

\* C24: a seat that is referenced by a ticket cannot be deleted: an attempt to
\* delete such a seat is rejected and the seat and the tickets remain; no
\* ticket ever references a deleted seat.
C24_ReferencedSeatProtected ==
    /\ [](\A t \in tickets : t.seat # NULL => seats[t.seat].status # DELETED)
    /\ [][ \A p \in Workers, s \in SeatIds :
             (/\ DeleteAsked(p, s)
              /\ \E t \in tickets : t.seat = s
              /\ DeleteSeat(p, s))
             => /\ w'[p].pc = "done"
                /\ w'[p].resp.detail = "ProtectedError"
                /\ seats' = seats
                /\ tickets' = tickets ]_vars

\* the admin tried to delete seat 1, which a ticket references: refused, the
\* seat is still held and the ticket still points at it
C24_Witness ==
    \E p \in Workers, t \in tickets :
        /\ w[p].pc = "done" /\ w[p].kind = "delete_seat" /\ w[p].req.seat_id = 1
        /\ w[p].resp.detail = "ProtectedError"
        /\ t.seat = 1
        /\ seats[1].status \in {RESERVED, SOLD}

\* C25: in register the seat's status is read only once the request holds the
\* exclusive row lock of that seat (no other transaction holds it at the
\* read), the request that takes the seat holds the lock from the read on, and
\* the lock is released only when its transaction ends.
C25_SeatLockDiscipline ==
    /\ [](\A p \in Workers :
             /\ (w[p].kind = "register" /\ w[p].seat # NULL)
                   => seatLock[w[p].seat] = p
             /\ \A x \in tx[p].seats : seatLock[x.id] = p)
    /\ [][ \A p \in Workers :
             LET s == w[p].req.seat_id
             IN (/\ w[p].pc = "r_seat" /\ w'[p].pc # "r_seat"
                 /\ s \in SeatIds
                 /\ seats[s].event = w[p].req.slug)
                => /\ seatLock[s] \in {0, p}
                   /\ w'[p].pc = "r_ticket" => seatLock'[s] = p ]_vars
    /\ [][ \A s \in SeatIds :
             (seatLock[s] # 0 /\ seatLock'[s] # seatLock[s])
             => /\ seatLock'[s] = 0
                /\ w'[seatLock[s]].pc = "done" ]_vars

\* one request holds the lock of seat 1 with its write uncommitted while a
\* request of another user waits for the same seat
C25_Witness ==
    \E p, q \in Workers :
        /\ p # q
        /\ seatLock[1] = p /\ w[p].pc = "r_ticket" /\ w[p].seat = 1
        /\ seats[1].status = FREE
        /\ w[q].pc = "r_seat" /\ w[q].req.seat_id = 1
        /\ w[q].req.tid # w[p].req.tid

\* C26: in check-in the ticket's is_used flag is read only under an exclusive
\* row lock on the ticket that is held until the write of is_used/used_at and
\* the CheckInLog insert are committed: no two requests are at once between
\* their read of is_used and their commit for the same ticket.
C26_TicketLockDiscipline ==
    \A p, q \in Workers :
        (/\ p # q
         /\ w[p].kind = "checkin" /\ w[p].pc \in {"c_mark", "c_log"}
         /\ w[q].kind = "checkin" /\ w[q].pc \in {"c_mark", "c_log"})
        => w[p].ticket # w[q].ticket

\* C27: when a register call with seat S succeeds, the registration's ticket
\* references S: it is created bound to S if the registration had none, and
\* an existing ticket bound to another seat or to none is repointed to S.
C27_TicketBoundToSeat ==
    [][ \A p \in Workers :
          (/\ w[p].kind = "register" /\ w[p].pc \in {"r_ticket", "r_repoint"}
           /\ w'[p].pc = "done" /\ w'[p].resp.code \in {200, 201})
          => LET S == w[p].req.seat_id
                 reg == w'[p].resp.reg
                 old == {t \in tickets : t.registration = reg}
             IN /\ \E u \in tickets' : /\ u.registration = reg
                                        /\ u.id = w'[p].resp.ticket
                                        /\ u.seat = S
                /\ old = {} => w'[p].resp.ticket \notin Ids(tickets)
                /\ \A t \in old : \E u \in tickets' :
                       u = [t EXCEPT !.seat = S] ]_vars

\* on the free event a user got a seatless ticket and then registered with
\* seat 1: the same ticket now references seat 1
C27_Witness ==
    \E p, q \in Workers, t \in tickets :
        /\ ~events["e1"].is_paid
        /\ RegisterDone(p) /\ w[p].req.seat_id = NULL /\ w[p].resp.code = 201
        /\ RegisterDone(q) /\ w[q].req.seat_id = 1 /\ w[q].resp.code = 200
        /\ w[p].resp.ticket = t.id /\ w[q].resp.ticket = t.id
        /\ t.seat = 1 /\ t.registration = w[q].resp.reg

\* C28: every seat that register has moved to RESERVED or SOLD is referenced
\* by a ticket: in no committed state is a seat held on behalf of a user
\* while no ticket points at it.
C28_HeldSeatHasTicket ==
    \A s \in SeatIds :
        seats[s].status \in {RESERVED, SOLD} => \E t \in tickets : t.seat = s


\* C29: within the core, seat status only moves FREE -> RESERVED or
\* FREE -> SOLD: no step of register or check-in changes the status of a seat
\* that is RESERVED, SOLD or BLOCKED, so the FREE seats of an event never
\* grow (a deletion by the admin is not a step of the core).
C29_SeatStatusMonotone ==
    [][ \/ \E p \in Workers, s \in SeatIds : DeleteAsked(p, s) /\ DeleteSeat(p, s)
        \/ \A s \in SeatIds :
              /\ seats[s].status # FREE => seats'[s].status = seats[s].status
              /\ seats[s].status = FREE
                   => seats'[s].status \in {FREE, RESERVED, SOLD} ]_vars

\* a request for the BLOCKED seat 4 was refused and left it BLOCKED, while
\* another request took seat 1
C29_Witness ==
    \E p, q \in Workers :
        /\ RegisterDone(p) /\ w[p].req.seat_id = 4 /\ Unavailable(p)
        /\ seats[4].status = BLOCKED
        /\ RegisterDone(q) /\ w[q].req.seat_id = 1 /\ Succeeded(q)
        /\ seats[1].status \in {RESERVED, SOLD}

\* C30: validation errors are rejected before any transaction is opened: a
\* register request missing telegram_id or full_name, and a check-in request
\* missing the token, are answered 400 without a transaction having been
\* started.
C30_ValidationBeforeTransaction ==
    \A p \in Workers :
        (/\ w[p].pc = "done"
         /\ \/ w[p].kind = "register" /\ RegisterInvalid(w[p].req.tid, w[p].req.name)
            \/ w[p].kind = "checkin" /\ TokenMissing(w[p].req.token))
        => w[p].resp.code = 400 /\ ~w[p].opened


\* C31: a register call that finds a pre-existing Registration leaves it as
\* it is: status, payment_status, promo_code and final_price of the row are
\* unchanged and no second row of the pair appears, even when the request
\* carries another promo_code or the event's base_price or is_paid has
\* changed since; no step changes a committed Registration row.
C31_ExistingRegistrationUntouched ==
    [][ /\ registrations \subseteq registrations'
        /\ \A p \in Workers :
              (/\ w[p].kind = "register" /\ w[p].pc = "r_reg"
               /\ w'[p].pc # "r_reg")
              => LET slug == w[p].req.slug
                     tid == w[p].req.tid
                     old == {r \in registrations : r.event = slug /\ r.user = tid}
                 IN old # {}
                    => /\ ~w'[p].created
                       /\ {r \in registrations' \cup tx'[p].regs :
                              r.event = slug /\ r.user = tid} = old ]_vars

\* user 1 registered without promo code while the event cost 100; the event
\* was then made free, and a second call of user 1 with promo code ABC got
\* the same registration, still PENDING at 100 without promo code
C31_Witness ==
    \E p \in Workers, r \in registrations :
        /\ RegisterDone(p) /\ w[p].resp.code = 200 /\ w[p].resp.reg = r.id
        /\ w[p].req.promo = "ABC" /\ r.promo_code = ""
        /\ r.final_price = 100 /\ r.status = "pending"
        /\ r.payment_status = "pending"
        /\ ~events["e1"].is_paid /\ events["e1"].base_price = NULL


\* C32: the token is the sole credential for redemption: a check-in that
\* presents the token of an existing unused ticket passes the checks whatever
\* the registration's status and payment_status and the seat's status are,
\* and a check-in is turned away only for a missing token, an unknown token
\* or a used ticket.
C32_TokenSoleCredential ==
    /\ [](\A p \in Workers :
             (CheckInDone(p) /\ w[p].resp.code \in 400..499)
             => w[p].resp.detail \in {"token is required", "Ticket not found",
                                      "Ticket already used"})
    /\ [][ \A p \in Workers, token \in CoreTokens, checker \in CoreCheckers :
             (/\ CheckInAsked(p, token, checker)
              /\ \E t \in tickets : t.token = token /\ ~t.is_used
              /\ CheckInBegin(p, token, checker))
             => /\ w'[p].pc = "c_mark"
                /\ \E t \in tickets : t.token = token /\ t.id = w'[p].ticket ]_vars

\* the ticket of a paid event was redeemed while its registration is PENDING,
\* unpaid, and its seat only RESERVED
C32_Witness ==
    \E p \in Workers, t \in tickets, r \in registrations :
        /\ CheckInDone(p) /\ w[p].resp.code = 200 /\ w[p].resp.ticket = t.id
        /\ t.is_used /\ t.registration = r.id
        /\ events[r.event].is_paid
        /\ r.status = "pending" /\ r.payment_status = "pending"
        /\ t.seat # NULL /\ seats[t.seat].status = RESERVED


\* C33: every register or check-in request terminates.  No set of requests
\* deadlocks: while requests are in flight, one of them can take its next
\* step.  A request that waited for a locked seat row takes its seat step
\* when no transaction holds the row, and decides on the committed status of
\* the seat.  In the end every request has been answered and none is left in
\* flight.
C33_Termination ==
    /\ []((\E p \in Workers : InFlight(p))
             => \E p \in Workers : InFlight(p) /\ ENABLED Advance(p))
    /\ [][ \A p \in Workers :
             (/\ w[p].pc = "r_seat" /\ w'[p].pc # "r_seat"
              /\ SeatFound(w[p].req.seat_id, w[p].req.slug))
             => /\ seatLock[w[p].req.seat_id] = 0
                /\ w'[p].pc = "r_ticket" <=> seats[w[p].req.seat_id].status = FREE
           ]_vars
    /\ <>[](\A p \in Workers : ~InFlight(p))

\* the request that held the row lock of seat 1 failed on its ticket insert
\* and rolled back, and another request for seat 1 then found it FREE and
\* got it
C33_Witness ==
    \E p, q \in Workers :
        /\ p # q
        /\ RegisterDone(p) /\ w[p].req.seat_id = 1
        /\ w[p].resp.code = 500 /\ w[p].resp.detail = "IntegrityError"
        /\ RegisterDone(q) /\ w[q].req.seat_id = 1 /\ Succeeded(q)
        /\ seats[1].reserved_by = w[q].req.tid


\* C34: repeating a register call that succeeded, with the same event,
\* identity and seat_id, is a safe retry: a call for seat S that reaches its
\* seat step when the identity's ticket on S is committed and no other request
\* is in flight does not fail, returns that registration and ticket, and
\* leaves seats, registrations and tickets as they are.
C34_SafeRetryWithSeat ==
    [][ \A p \in Workers :
          (/\ w[p].kind = "register" /\ w[p].pc = "r_seat"
           /\ w'[p].pc # "r_seat"
           /\ \A q \in Workers \ {p} : w[q].pc \in {"idle", "done"}
           /\ \E t \in tickets, r \in registrations :
                 /\ r.event = w[p].req.slug /\ r.user = w[p].req.tid
                 /\ t.registration = r.id /\ t.seat = w[p].req.seat_id)
          => /\ w'[p].pc = "done"
                   => /\ w'[p].resp.code = 200
                      /\ \E t \in tickets :
                            /\ t.id = w'[p].resp.ticket
                            /\ t.registration = w'[p].resp.reg
                            /\ t.seat = w[p].req.seat_id
             /\ UNCHANGED <<seats, registrations, tickets>> ]_vars

\* C35: once a ticket has been redeemed no register call changes it: the
\* seat reference of a used ticket is frozen.
C35_UsedTicketFrozen ==
    [][ \A t \in tickets :
          t.is_used => \E u \in tickets' : u.id = t.id /\ u.seat = t.seat ]_vars


\* C36: in every reachable state a ticket that references a seat references
\* a seat of the event of the ticket's registration.
C36_TicketSeatSameEvent ==
    \A t \in tickets :
        t.seat # NULL
        => \E r \in registrations : /\ r.id = t.registration
                                    /\ t.seat \in SeatIds
                                    /\ seats[t.seat].event = r.event

\* a ticket of an e1 registration sits on seat 1 of e1, and a request that
\* named seat 3 of event e2 was answered "Seat not found"
C36_Witness ==
    \E p \in Workers, t \in tickets, r \in registrations :
        /\ t.seat = 1 /\ t.registration = r.id /\ r.event = "e1"
        /\ RegisterDone(p) /\ w[p].req.slug = "e1" /\ w[p].req.seat_id = 3
        /\ w[p].resp.code = 404 /\ w[p].resp.detail = "Seat not found"
        /\ seats[3].event = "e2" /\ seats[3].status = FREE

\* C37: in every reachable state a seat referenced by a ticket has status
\* RESERVED or SOLD and its reserved_by is the user of the ticket's
\* registration.
C37_TicketSeatHeldByOwner ==
    \A t \in tickets :
        t.seat # NULL
        => /\ seats[t.seat].status \in {RESERVED, SOLD}
           /\ \E r \in registrations : /\ r.id = t.registration
                                       /\ seats[t.seat].reserved_by = r.user

\* user 1, who held seat 1, registered again with seat 2: the ticket
\* references seat 2, which user 1 holds
C37_Witness ==
    \E t \in tickets, r \in registrations :
        /\ t.registration = r.id /\ r.user = 1 /\ t.seat = 2
        /\ seats[2].reserved_by = 1 /\ seats[2].status \in {RESERVED, SOLD}
        /\ seats[1].reserved_by = 1 /\ seats[1].status \in {RESERVED, SOLD}


\* C38: check-in changes only the redeemed ticket's is_used and used_at and
\* appends CheckInLog rows: no step of a check-in changes a seat, a
\* registration, a user record, the seat reference or token of any ticket,
\* or any other ticket, and none removes a ticket or a log row.
C38_CheckInFrame ==
    [][ \A p \in Workers :
          (/\ w[p].kind = "checkin" \/ w'[p].kind = "checkin"
           /\ \/ CheckInMarkUsed(p)
              \/ CheckInLogCreate(p)
              \/ \E token \in CoreTokens, checker \in CoreCheckers :
                    CheckInBegin(p, token, checker))
          => /\ UNCHANGED <<seats, registrations, users>>
             /\ checkinlogs \subseteq checkinlogs'
             /\ Ids(tickets') = Ids(tickets)
             /\ \A t \in tickets :
                   \/ t \in tickets'
                   \/ /\ t.id = w[p].ticket
                      /\ \E u \in tickets' :
                            u = [t EXCEPT !.is_used = TRUE, !.used_at = u.used_at]
        ]_vars

\* the ticket on seat 1 was redeemed: it is used, still on seat 1, a log row
\* was appended, and seat and registration are as register left them
C38_Witness ==
    \E p \in Workers, t \in tickets, r \in registrations, l \in checkinlogs :
        /\ CheckInDone(p) /\ w[p].resp.code = 200 /\ w[p].resp.ticket = t.id
        /\ l.ticket = t.id
        /\ t.is_used /\ t.seat = 1 /\ t.registration = r.id
        /\ seats[1].status = AcquiredStatus(events["e1"].is_paid)
        /\ seats[1].reserved_by = r.user
        /\ r.status = (IF events["e1"].is_paid THEN "pending" ELSE "confirmed")


\* C39: Event.confirmed_count is never modified by register or check-in: it
\* keeps its initial value whatever registrations are made, and register
\* never refuses a registration on the basis of Event.capacity: every
\* refusal has its cause in the slug, the required fields or the seat.
C39_CapacityNotEnforced ==
    /\ \A e \in EventSlugs : events[e].confirmed_count = 0
    /\ events["e1"].capacity = EventCapacity
    /\ \A p \in Workers :
          (RegisterDone(p) /\ ~Succeeded(p))
          => LET req == w[p].req
                 detail == w[p].resp.detail
             IN \/ /\ detail = "Event not found"
                   /\ req.slug \notin EventSlugs \/ ~events[req.slug].is_active
                \/ /\ detail = "telegram_id and full_name are required"
                   /\ RegisterInvalid(req.tid, req.name)
                \/ /\ detail = "Seat not found"
                   /\ ~SeatFound(req.seat_id, req.slug)
                \/ /\ detail = "Seat is not available"
                   /\ req.seat_id \in SeatIds
                   /\ seats[req.seat_id].status # FREE
                \/ /\ detail = "IntegrityError"
                   /\ \E r \in registrations, t \in tickets :
                         /\ r.event = req.slug /\ r.user = req.tid
                         /\ t.registration = r.id

\* two registrations of the free event are CONFIRMED, one more than its
\* capacity, and confirmed_count is still 0
C39_Witness ==
    /\ ~events["e1"].is_paid
    /\ Cardinality({r \in registrations :
                       r.event = "e1" /\ r.status = "confirmed"}) = 2
    /\ events["e1"].capacity = 1
    /\ events["e1"].confirmed_count = 0
    /\ \A p \in Workers : RegisterDone(p) /\ w[p].resp.code = 201

====
